---------------------------- MODULE Spec2Model ----------------------------
(***************************************************************************)
(* Model of build_task_relationships (src/get_project_tasks.py, lines      *)
(* 842-988): the resolver that turns a flat collection of project items    *)
(* into the dictionaries 'children', 'parents', 'roots' and 'orphans'.     *)
(*                                                                         *)
(* The function is modelled as a step machine with one action per loop     *)
(* body of the source, so that intermediate writes to the dictionaries are *)
(* observable.  A Python dict is a function whose DOMAIN is its key set;   *)
(* a Python list is a sequence.  None, a missing number and the number 0   *)
(* are all falsy in the source's tests and are all written 0 here.         *)
(***************************************************************************)
EXTENDS Integers, Sequences, FiniteSets, TLC

(***************************************************************************)
(* Bounds of the explored inputs.                                          *)
(***************************************************************************)
\* largest number of items in a collection
MaxItems == 3
\* largest total number of declared references (parent + sub_issues
\* entries) in a collection
MaxRefs == 3
\* the same when an item has no number or repeats a number
MaxIrregularRefs == 1
\* the same when the items also carry markers
MaxMixedRefs == 1

(***************************************************************************)
(* Strings.  A title is a sequence of one-character strings so that        *)
(* str.lower() and str.split() can be computed as Python computes them.    *)
(***************************************************************************)
Whitespace == {" ", "\t", "\n"}

\* str.lower() on one character
LowerChar(c) ==
  CASE c = "A" -> "a" [] c = "B" -> "b" [] c = "C" -> "c" [] c = "D" -> "d"
    [] c = "E" -> "e" [] c = "F" -> "f" [] c = "G" -> "g" [] c = "H" -> "h"
    [] c = "I" -> "i" [] c = "J" -> "j" [] c = "K" -> "k" [] c = "L" -> "l"
    [] c = "M" -> "m" [] c = "N" -> "n" [] c = "O" -> "o" [] c = "P" -> "p"
    [] c = "Q" -> "q" [] c = "R" -> "r" [] c = "S" -> "s" [] c = "T" -> "t"
    [] c = "U" -> "u" [] c = "V" -> "v" [] c = "W" -> "w" [] c = "X" -> "x"
    [] c = "Y" -> "y" [] c = "Z" -> "z" [] OTHER -> c

\* str.lower()
Lower(s) == [i \in 1..Len(s) |-> LowerChar(s[i])]

\* str.split() without arguments: the set of maximal runs of
\* non-whitespace characters (the source only ever uses set(title.split()))
RECURSIVE SplitFrom(_, _, _, _)
SplitFrom(s, i, cur, acc) ==
  IF i > Len(s)
    THEN IF cur = <<>> THEN acc ELSE acc \cup {cur}
    ELSE IF s[i] \in Whitespace
           THEN SplitFrom(s, i + 1, <<>>, IF cur = <<>> THEN acc ELSE acc \cup {cur})
           ELSE SplitFrom(s, i + 1, Append(cur, s[i]), acc)

SplitTerms(s) == SplitFrom(s, 1, <<>>, {})

(***************************************************************************)
(* Dictionaries and lists.                                                 *)
(***************************************************************************)
EmptyDict == [k \in {} |-> 0]

\* d[k] = v
Put(d, k, v) == [x \in (DOMAIN d) \cup {k} |-> IF x = k THEN v ELSE d[x]]

\* d.get(k), None written 0
Get(d, k) == IF k \in DOMAIN d THEN d[k] ELSE 0

Elems(l) == {l[i] : i \in 1..Len(l)}

\* the same with d[k].insert(0, x) for d[k].append(x)
AppendUniqueInFront(d, k, x) ==
  LET old == IF k \in DOMAIN d THEN d[k] ELSE <<>>
  IN  Put(d, k, IF x \in Elems(old) THEN old ELSE <<x>> \o old)

\* d[k].append(x) without the membership test of lines 869 and 883
AppendAlways(d, k, x) ==
  LET old == IF k \in DOMAIN d THEN d[k] ELSE <<>>
  IN  Put(d, k, Append(old, x))

\* if x not in d[k]: d[k].append(x), after d[k] was created empty if missing
AppendUnique(d, k, x) ==
  LET old == IF k \in DOMAIN d THEN d[k] ELSE <<>>
  IN  Put(d, k, IF x \in Elems(old) THEN old ELSE Append(old, x))

\* for k in ks: d[k] = v
RECURSIVE PutAll(_, _, _)
PutAll(d, ks, v) ==
  IF ks = <<>> THEN d ELSE PutAll(Put(d, Head(ks), v), Tail(ks), v)

(***************************************************************************)
(* The Indexer (line 854): number_to_id, later items overwrite earlier.    *)
(***************************************************************************)
NumberToIdFirstWins(its) ==
  [n \in {its[i].number : i \in 1..Len(its)} \ {0} |->
     LET first == CHOOSE i \in 1..Len(its) :
                     /\ its[i].number = n
                     /\ \A j \in 1..Len(its) : its[j].number = n => i <= j
     IN  its[first].id]

NumberToId(its) ==
  [n \in {its[i].number : i \in 1..Len(its)} \ {0} |->
     LET last == CHOOSE i \in 1..Len(its) :
                    /\ its[i].number = n
                    /\ \A j \in 1..Len(its) : its[j].number = n => j <= i
     IN  its[last].id]

(***************************************************************************)
(* Tier 1 and 2 (lines 857-887), one item of the loop.                     *)
(* rel is the pair of dictionaries [children, parents].                    *)
(***************************************************************************)
\* lines 861-871 with the append of line 870 skipped for an item that
\* already has a parent entry
DeclaredParentLinkSkipsListed(rel, item, number_to_id) ==
  LET parent_id == Get(number_to_id, item.parent)
  IN  IF item.parent # 0 /\ parent_id # 0
        THEN [children |-> IF item.id \in DOMAIN rel.parents
                             THEN rel.children
                             ELSE AppendUnique(rel.children, parent_id, item.id),
              parents  |-> Put(rel.parents, item.id, parent_id)]
        ELSE rel

\* lines 861-871 with line 871 guarded like line 886
DeclaredParentLinkKeepsFirst(rel, item, number_to_id) ==
  LET parent_id == Get(number_to_id, item.parent)
  IN  IF item.parent # 0 /\ parent_id # 0
        THEN [children |-> AppendUnique(rel.children, parent_id, item.id),
              parents  |-> IF item.id \in DOMAIN rel.parents
                             THEN rel.parents
                             ELSE Put(rel.parents, item.id, parent_id)]
        ELSE rel

\* lines 861-871 without the test of line 866
DeclaredParentLinkUnchecked(rel, item, number_to_id) ==
  LET parent_id == Get(number_to_id, item.parent)
  IN  IF item.parent # 0
        THEN [children |-> AppendUnique(rel.children, parent_id, item.id),
              parents  |-> Put(rel.parents, item.id, parent_id)]
        ELSE rel

\* lines 861-871
DeclaredParentLink(rel, item, number_to_id) ==
  LET parent_id == Get(number_to_id, item.parent)
  IN  IF item.parent # 0 /\ parent_id # 0
        THEN [children |-> AppendUnique(rel.children, parent_id, item.id),
              parents  |-> Put(rel.parents, item.id, parent_id)]
        ELSE rel

\* lines 876-887 without the write of line 887
SubIssueLinkNoParent(rel, item_id, sub_number, number_to_id) ==
  LET sub_id == IF sub_number # 0 THEN Get(number_to_id, sub_number) ELSE 0
  IN  IF sub_id # 0
        THEN [children |-> AppendUnique(rel.children, item_id, sub_id),
              parents  |-> rel.parents]
        ELSE rel

\* lines 876-887, one sub_issue of the inner loop
SubIssueLink(rel, item_id, sub_number, number_to_id) ==
  LET sub_id == IF sub_number # 0 THEN Get(number_to_id, sub_number) ELSE 0
  IN  IF sub_id # 0
        THEN [children |-> AppendUnique(rel.children, item_id, sub_id),
              parents  |-> IF sub_id \in DOMAIN rel.parents
                             THEN rel.parents
                             ELSE Put(rel.parents, sub_id, item_id)]
        ELSE rel

\* lines 874-887, the whole inner loop
RECURSIVE SubIssueLinks(_, _, _, _)
SubIssueLinks(rel, item_id, subs, number_to_id) ==
  IF subs = <<>>
    THEN rel
    ELSE SubIssueLinks(SubIssueLink(rel, item_id, Head(subs), number_to_id),
                       item_id, Tail(subs), number_to_id)

(***************************************************************************)
(* Tier 3 (lines 890-942).                                                 *)
(***************************************************************************)
IsRequirement(item) == "Acceptance" \in DOMAIN item.project_fields

\* the 'elif' of line 900 read as 'if': an item with both fields is a
\* requirement and a test case
IsTestCaseAlsoRequirement(item) == "Test type" \in DOMAIN item.project_fields

\* line 900 with the items that carry a 'Test ID' counted as test cases
IsTestCaseOrHasTestId(item) ==
  /\ ~IsRequirement(item)
  /\ \/ "Test type" \in DOMAIN item.project_fields
     \/ "Test ID" \in DOMAIN item.project_fields

IsTestCase(item) ==
  /\ ~IsRequirement(item)
  /\ "Test type" \in DOMAIN item.project_fields

\* lines 892-903
Requirements(its) == SelectSeq(its, IsRequirement)
TestCases(its) == SelectSeq(its, IsTestCase)

\* lines 913-926 with len(term) >= 3 in line 923
TitlesMatchShortTerms(req_title_raw, test_title_raw) ==
  LET req_title == Lower(req_title_raw)
      test_title == Lower(test_title_raw)
      common_terms == SplitTerms(req_title) \cap SplitTerms(test_title)
      significant_terms == {term \in common_terms : Len(term) >= 3}
  IN  /\ test_title # <<>>
      /\ req_title # <<>>
      /\ Cardinality(significant_terms) >= 1

\* lines 913-926 with terms compared by prefix instead of equality
TitlesMatchByPrefix(req_title_raw, test_title_raw) ==
  LET req_title == Lower(req_title_raw)
      test_title == Lower(test_title_raw)
      IsPrefix(u, v) == Len(u) <= Len(v) /\ SubSeq(v, 1, Len(u)) = u
      significant_terms ==
        {term \in SplitTerms(req_title) \cup SplitTerms(test_title) :
           /\ Len(term) > 3
           /\ \E u \in SplitTerms(req_title) : IsPrefix(term, u)
           /\ \E v \in SplitTerms(test_title) : IsPrefix(term, v)}
  IN  /\ test_title # <<>>
      /\ req_title # <<>>
      /\ Cardinality(significant_terms) >= 1

\* lines 913-926: the pair of titles has a significant common term
TitlesMatch(req_title_raw, test_title_raw) ==
  LET req_title == Lower(req_title_raw)
      test_title == Lower(test_title_raw)
      common_terms == SplitTerms(req_title) \cap SplitTerms(test_title)
      significant_terms == {term \in common_terms : Len(term) > 3}
  IN  /\ test_title # <<>>
      /\ req_title # <<>>
      /\ Cardinality(significant_terms) >= 1

\* lines 911-927: related_tests of one requirement, in test_cases order
RECURSIVE RelatedTests(_, _)
RelatedTests(req, tests) ==
  IF tests = <<>>
    THEN <<>>
    ELSE IF TitlesMatch(req.title, Head(tests).title)
           THEN <<Head(tests).id>> \o RelatedTests(req, Tail(tests))
           ELSE RelatedTests(req, Tail(tests))

\* lines 939-942 with the tests that already have a parent left out
LexicalLinkFirstMatchWins(rel, req, tests) ==
  LET HasNoParent(test_id) == test_id \notin DOMAIN rel.parents
      related_tests == SelectSeq(RelatedTests(req, tests), HasNoParent)
  IN  IF related_tests # <<>>
        THEN [children |-> Put(rel.children, req.id, related_tests),
              parents  |-> PutAll(rel.parents, related_tests, req.id)]
        ELSE rel

\* lines 939-942
LexicalLink(rel, req, tests) ==
  LET related_tests == RelatedTests(req, tests)
  IN  IF related_tests # <<>>
        THEN [children |-> Put(rel.children, req.id, related_tests),
              parents  |-> PutAll(rel.parents, related_tests, req.id)]
        ELSE rel

(***************************************************************************)
(* Tier 4 (lines 945-965).                                                 *)
(***************************************************************************)
TestIdOf(item) ==
  IF "Test ID" \in DOMAIN item.project_fields
    THEN item.project_fields["Test ID"]
    ELSE ""

\* lines 946-952: the keys of test_id_groups in insertion order
RECURSIVE GroupKeys(_, _)
GroupKeys(tests, seen) ==
  IF tests = <<>>
    THEN <<>>
    ELSE LET test_id == TestIdOf(Head(tests))
         IN  IF test_id # "" /\ test_id \notin seen
               THEN <<test_id>> \o GroupKeys(Tail(tests), seen \cup {test_id})
               ELSE GroupKeys(Tail(tests), seen)

\* test_id_groups[test_id], the members in test_cases order
RECURSIVE GroupMembers(_, _)
GroupMembers(tests, test_id) ==
  IF tests = <<>>
    THEN <<>>
    ELSE IF TestIdOf(Head(tests)) = test_id
           THEN <<Head(tests).id>> \o GroupMembers(Tail(tests), test_id)
           ELSE GroupMembers(Tail(tests), test_id)

\* lines 955-965 with len(tests) > 2 in line 956
RECURSIVE GroupLinksMinThree(_, _, _)
GroupLinksMinThree(rel, keys, tests) ==
  IF keys = <<>>
    THEN rel
    ELSE LET members == GroupMembers(tests, Head(keys))
             parent_id == Head(members)
             child_ids == Tail(members)
             linked == IF Len(members) > 2 /\ child_ids # <<>>
                         THEN [children |-> Put(rel.children, parent_id, child_ids),
                               parents  |-> PutAll(rel.parents, child_ids, parent_id)]
                         ELSE rel
         IN  GroupLinksMinThree(linked, Tail(keys), tests)

\* lines 955-965
RECURSIVE GroupLinks(_, _, _)
GroupLinks(rel, keys, tests) ==
  IF keys = <<>>
    THEN rel
    ELSE LET members == GroupMembers(tests, Head(keys))
             parent_id == Head(members)
             child_ids == Tail(members)
             linked == IF Len(members) > 1 /\ child_ids # <<>>
                         THEN [children |-> Put(rel.children, parent_id, child_ids),
                               parents  |-> PutAll(rel.parents, child_ids, parent_id)]
                         ELSE rel
         IN  GroupLinks(linked, Tail(keys), tests)

(***************************************************************************)
(* Classifier (lines 969-986).                                             *)
(***************************************************************************)
RECURSIVE IdsWhere(_, _, _, _, _)
IdsWhere(its, ch, pa, wantChildren, i) ==
  IF i > Len(its)
    THEN <<>>
    ELSE LET item_id == its[i].id
             has_children_in_project == item_id \in DOMAIN ch
             has_parent_in_project == item_id \in DOMAIN pa
         IN  (IF has_children_in_project = wantChildren /\ ~has_parent_in_project
                THEN <<item_id>> ELSE <<>>)
             \o IdsWhere(its, ch, pa, wantChildren, i + 1)

\* lines 969-976 without the test of has_parent_in_project
RootIdsIgnoringParents(its, ch, pa) == IdsWhere(its, ch, EmptyDict, TRUE, 1)

\* lines 969-976
RootIds(its, ch, pa) == IdsWhere(its, ch, pa, TRUE, 1)
\* lines 979-986 with the loop starting at the second item
OrphanIdsSkipsFirst(its, ch, pa) == IdsWhere(its, ch, pa, FALSE, 2)

\* lines 979-986
OrphanIds(its, ch, pa) == IdsWhere(its, ch, pa, FALSE, 1)

(***************************************************************************)
(* Input collections.  An item is the record parse_item_data builds; only  *)
(* the keys the resolver reads are kept: id, number, title, parent (the    *)
(* number of the declared parent, 0 if none), sub_issues (the numbers of   *)
(* the declared sub-issues) and project_fields.  Item ids are unique (the  *)
(* position of the item in the collection).                                *)
(***************************************************************************)
\* "Log ERRORS"
TitleLogErrors == <<"L", "o", "g", " ", "E", "R", "R", "O", "R", "S">>
\* "errors  log" (two blanks)
TitleErrorsLog == <<"e", "r", "r", "o", "r", "s", " ", " ", "l", "o", "g">>
\* "log that"
TitleLogThat == <<"l", "o", "g", " ", "t", "h", "a", "t">>
\* "That error"
TitleThatError == <<"T", "h", "a", "t", "\t", "e", "r", "r", "o", "r">>
\* "System shall log errors"
TitleSystemShall ==
  <<"S", "y", "s", "t", "e", "m", " ", "s", "h", "a", "l", "l", " ",
    "l", "o", "g", " ", "e", "r", "r", "o", "r", "s">>
\* "Verify that error logging works"
TitleVerifyThat ==
  <<"V", "e", "r", "i", "f", "y", " ", "t", "h", "a", "t", " ",
    "e", "r", "r", "o", "r", " ", "l", "o", "g", "g", "i", "n", "g", " ",
    "w", "o", "r", "k", "s">>

NoFields == [k \in {} |-> ""]
Acceptance(v) == [k \in {"Acceptance"} |-> v]
TestType(v) == [k \in {"Test type"} |-> v]
TestTypeWithId(v, test_id) ==
  [k \in {"Test type", "Test ID"} |-> IF k = "Test ID" THEN test_id ELSE v]
AllMarkers(test_id) ==
  [k \in {"Acceptance", "Test type", "Test ID"} |->
     IF k = "Test ID" THEN test_id ELSE "yes"]

TestIdOnly(test_id) == [k \in {"Test ID"} |-> test_id]

Attr(title, project_fields) == [title |-> title, project_fields |-> project_fields]

\* the title and project fields an item of a marker-driven input can carry
AttrPool ==
  { Attr(TitleLogThat, NoFields),
    Attr(TitleLogThat, TestIdOnly("TID-7")),
    Attr(TitleLogErrors, Acceptance("yes")),
    Attr(TitleLogThat, Acceptance("yes")),
    Attr(TitleThatError, Acceptance("yes")),
    Attr(<<>>, Acceptance("yes")),
    Attr(TitleErrorsLog, AllMarkers("TID-7")),
    Attr(TitleErrorsLog, TestTypeWithId("Unit", "TID-7")),
    Attr(TitleErrorsLog, TestType("Unit")),
    Attr(TitleThatError, TestTypeWithId("Unit", "TID-7")),
    Attr(TitleLogThat, TestTypeWithId("Unit", "TID-8")),
    Attr(<<>>, TestTypeWithId("Unit", "TID-8")),
    Attr(TitleLogErrors, TestTypeWithId("Unit", "")) }

\* the attributes of the items of an input with declared links: either no
\* markers at all, or a requirement followed by matching tests of one group
PlainAttrs(n) == [i \in 1..n |-> Attr(TitleLogThat, NoFields)]
MarkedAttrs(n) ==
  [i \in 1..n |-> IF i = 1 THEN Attr(TitleLogErrors, Acceptance("yes"))
                           ELSE Attr(TitleErrorsLog, TestTypeWithId("Unit", "TID-7"))]

\* the numbers of the items: all present and distinct, or one item without
\* a number (a draft), or one item repeating the number of an earlier one
NumberProfiles(n) ==
  {[i \in 1..n |-> i]}
    \cup {[i \in 1..n |-> IF i = a THEN 0 ELSE i] : a \in 1..n}
    \cup {[i \in 1..n |-> IF i = b THEN a ELSE i] :
            <<a, b>> \in {<<x, y>> \in (1..n) \X (1..n) : x < y}}

\* the declared links of one item, exactly k references
ItemLinks(n, k) ==
  {[parent |-> 0, sub_issues |-> s] : s \in [1..k -> 1..n]}
    \cup (IF k = 0
            THEN {}
            ELSE {[parent |-> p, sub_issues |-> s] :
                    p \in 1..n, s \in [1..(k - 1) -> 1..n]})

MkItems(n, numbers, links, attrs) ==
  [i \in 1..n |-> [id |-> i,
                   number |-> numbers[i],
                   title |-> attrs[i].title,
                   parent |-> links[i].parent,
                   sub_issues |-> links[i].sub_issues,
                   project_fields |-> attrs[i].project_fields]]

NoLinks(n) == [i \in 1..n |-> [parent |-> 0, sub_issues |-> <<>>]]

\* its is a collection of n items with the given numbers and attributes
\* whose declared links extend prev by at most b references
RECURSIVE WithLinks(_, _, _, _, _, _)
WithLinks(its, n, numbers, attrs, prev, b) ==
  IF Len(prev) = n
    THEN its = MkItems(n, numbers, prev, attrs)
    ELSE \E k \in 0..b :
           \E row \in ItemLinks(n, k) :
             WithLinks(its, n, numbers, attrs, Append(prev, row), b - k)

\* collections with declared links between items of distinct numbers
DeclaredInputs(its) ==
  \E n \in 0..MaxItems :
    WithLinks(its, n, [i \in 1..n |-> i], PlainAttrs(n), <<>>, MaxRefs)

\* collections with declared links where an item has no number or repeats
\* the number of an earlier item
IrregularInputs(its) ==
  \E n \in 0..MaxItems :
    \E numbers \in NumberProfiles(n) \ {[i \in 1..n |-> i]} :
      WithLinks(its, n, numbers, PlainAttrs(n), <<>>, MaxIrregularRefs)

\* collections with declared links between items that also carry markers
MixedInputs(its) ==
  \E n \in 0..MaxItems :
    \E numbers \in NumberProfiles(n) :
      WithLinks(its, n, numbers, MarkedAttrs(n), <<>>, MaxMixedRefs)

\* collections without declared links, driven by markers and titles
MarkerInputs(its) ==
  \E n \in 0..MaxItems :
    \E attrs \in [1..n -> AttrPool] :
      its = MkItems(n, [i \in 1..n |-> i], NoLinks(n), attrs)

\* the collection of the specification's lexical scenario
ScenarioItems ==
  MkItems(2, <<1, 2>>, NoLinks(2),
          <<Attr(TitleSystemShall, Acceptance("yes")),
            Attr(TitleVerifyThat, TestType("Unit"))>>)

(***************************************************************************)
(* The state of one run of build_task_relationships.                       *)
(***************************************************************************)
VARIABLES
  items,     \* the argument
  pc,        \* the loop the run is in
  idx,       \* the index of that loop
  children,  \* relationships['children']: parent_id -> [child_ids]
  parents,   \* relationships['parents']: child_id -> parent_id
  roots,     \* relationships['roots']
  orphans,   \* relationships['orphans']
  pager,     \* one call of get_all_project_items and the service it queries
  batch,     \* one call of create_tasks_from_file
  task,      \* one call of create_test_case_task and the service it queries
  tree,      \* one call of display_as_relationship_tree
  loop       \* the stdio loop of the MCP server's main

vars == <<items, pc, idx, children, parents, roots, orphans,
          pager, batch, task, tree, loop>>

\* the state of the other operations, which a run of the resolver leaves alone
outside == <<pager, batch, task, tree, loop>>

\* an operation that is not running
NotRunning == [pc |-> "idle"]

\* line 945: where the run goes after the requirement loop
AfterLexical(its, ch) ==
  IF ch = EmptyDict /\ TestCases(its) # <<>> THEN "group" ELSE "roots"

\* line 890 without its test: the fallback tiers always run
AfterNativeAlwaysFallsBack(its, ch, pa) ==
  IF Requirements(its) # <<>> THEN "lexical" ELSE AfterLexical(its, ch)

\* line 890 and the loop header of line 906
AfterNative(its, ch, pa) ==
  IF ch = EmptyDict /\ pa = EmptyDict
    THEN IF Requirements(its) # <<>> THEN "lexical" ELSE AfterLexical(its, ch)
    ELSE "roots"

\* lines 844-857
Init ==
  /\ \/ DeclaredInputs(items)
     \/ IrregularInputs(items)
     \/ MixedInputs(items)
     \/ MarkerInputs(items)
     \/ items = ScenarioItems
  /\ children = EmptyDict
  /\ parents = EmptyDict
  /\ roots = <<>>
  /\ orphans = <<>>
  /\ idx = 1
  /\ pc = IF items # <<>> THEN "native" ELSE AfterNative(items, EmptyDict, EmptyDict)
  /\ pager = NotRunning
  /\ batch = NotRunning
  /\ task = NotRunning
  /\ tree = NotRunning
  /\ loop = NotRunning

\* lines 857-887: one item of the native pass, its declared parent first,
\* then its declared sub-issues
NativeStep ==
  /\ pc = "native"
  /\ idx <= Len(items)
  /\ LET item == items[idx]
         number_to_id == NumberToId(items)
         linked == SubIssueLinks(DeclaredParentLink([children |-> children,
                                                     parents |-> parents],
                                                    item, number_to_id),
                                 item.id, item.sub_issues, number_to_id)
     IN  /\ children' = linked.children
         /\ parents' = linked.parents
         /\ IF idx < Len(items)
              THEN /\ idx' = idx + 1
                   /\ pc' = pc
              ELSE /\ idx' = 1
                   /\ pc' = AfterNative(items, linked.children, linked.parents)
  /\ UNCHANGED <<items, roots, orphans>>
  /\ UNCHANGED outside

\* lines 906-942: one requirement of the lexical pass
LexicalStep ==
  /\ pc = "lexical"
  /\ idx <= Len(Requirements(items))
  /\ LET req == Requirements(items)[idx]
         linked == LexicalLink([children |-> children, parents |-> parents],
                               req, TestCases(items))
     IN  /\ children' = linked.children
         /\ parents' = linked.parents
         /\ IF idx < Len(Requirements(items))
              THEN /\ idx' = idx + 1
                   /\ pc' = pc
              ELSE /\ idx' = 1
                   /\ pc' = AfterLexical(items, linked.children)
  /\ UNCHANGED <<items, roots, orphans>>
  /\ UNCHANGED outside

\* lines 945-965: grouping of the test cases by their Test ID
GroupStep ==
  /\ pc = "group"
  /\ LET test_cases == TestCases(items)
         linked == GroupLinks([children |-> children, parents |-> parents],
                              GroupKeys(test_cases, {}), test_cases)
     IN  /\ children' = linked.children
         /\ parents' = linked.parents
  /\ pc' = "roots"
  /\ UNCHANGED <<items, idx, roots, orphans>>
  /\ UNCHANGED outside

\* lines 969-976
IdentifyRoots ==
  /\ pc = "roots"
  /\ roots' = RootIds(items, children, parents)
  /\ pc' = "orphans"
  /\ UNCHANGED <<items, idx, children, parents, orphans>>
  /\ UNCHANGED outside

\* lines 979-988
IdentifyOrphans ==
  /\ pc = "orphans"
  /\ orphans' = OrphanIds(items, children, parents)
  /\ pc' = "done"
  /\ UNCHANGED <<items, idx, children, parents, roots>>
  /\ UNCHANGED outside

Next ==
  \/ NativeStep
  \/ LexicalStep
  \/ GroupStep
  \/ IdentifyRoots
  \/ IdentifyOrphans

Spec == Init /\ [][Next]_vars

(***************************************************************************)
(* get_all_project_items (lines 305-323) and the service's paged answers   *)
(* to the query of get_project_items (lines 128-303).                      *)
(***************************************************************************)
MaxPages == 4
MaxPageSize == 2

\* the number of nodes on the pages before page i
RECURSIVE NodesBefore(_, _)
NodesBefore(sizes, i) ==
  IF i <= 1 THEN 0 ELSE NodesBefore(sizes, i - 1) + sizes[i - 1]

\* the service's answer to items(first, after): the page that starts behind
\* the node the cursor names (from the first node when no cursor is sent).
\* Nodes are written as their position in the project, a cursor as the
\* position of the last node it covers, null as 0 (the cursor of an empty
\* page)
ServicePage(sizes, sent) ==
  LET i == CHOOSE j \in 1..Len(sizes) : NodesBefore(sizes, j) = sent
      n == sizes[i]
  IN  [nodes |-> [x \in 1..n |-> sent + x],
       hasNextPage |-> i < Len(sizes),
       endCursor |-> IF n = 0 THEN 0 ELSE sent + n]

\* lines 295-303: the variables of the request; 'after' is sent when truthy
RequestCursor(after) == IF after # 0 THEN after ELSE 0

\* lines 312-321 with line 321 left out
AfterPageKeepsCursor(p, page) ==
  [p EXCEPT !.all_items = p.all_items \o page.nodes,
            !.has_next_page = page.hasNextPage]

\* lines 312-321: the loop body after the request
AfterPage(p, page) ==
  [p EXCEPT !.all_items = p.all_items \o page.nodes,
            !.has_next_page = page.hasNextPage,
            !.after = page.endCursor]

\* the pages of a project, as their sizes: every page but the last is
\* non-empty (the service fills a page before it reports a next one)
PagerInputs ==
  UNION {{Append(full, last) : full \in [1..(k - 1) -> 1..MaxPageSize],
                               last \in 0..MaxPageSize} : k \in 1..MaxPages}

\* the variables of the resolver while another operation runs
resolver == <<items, pc, idx, children, parents, roots, orphans>>

ResolverNotRunning ==
  /\ items = <<>>
  /\ pc = "idle"
  /\ idx = 1
  /\ children = EmptyDict
  /\ parents = EmptyDict
  /\ roots = <<>>
  /\ orphans = <<>>

\* lines 307-309
PagerInit ==
  /\ \E sizes \in PagerInputs :
       pager = [pc |-> "loop",
                sizes |-> sizes,
                requests |-> <<>>,
                all_items |-> <<>>,
                has_next_page |-> TRUE,
                after |-> 0]
  /\ ResolverNotRunning
  /\ batch = NotRunning
  /\ task = NotRunning
  /\ tree = NotRunning
  /\ loop = NotRunning

\* lines 311-321: one turn of the while loop
FetchPage ==
  /\ pager.pc = "loop"
  /\ pager.has_next_page
  /\ LET sent == RequestCursor(pager.after)
         page == ServicePage(pager.sizes, sent)
     IN  pager' = AfterPage([pager EXCEPT !.requests = Append(@, sent)], page)
  /\ UNCHANGED <<resolver, batch, task, tree, loop>>

\* lines 311 and 323: the loop ends and the list is returned
ReturnItems ==
  /\ pager.pc = "loop"
  /\ ~pager.has_next_page
  /\ pager' = [pager EXCEPT !.pc = "returned"]
  /\ UNCHANGED <<resolver, batch, task, tree, loop>>

PagerNext ==
  \/ FetchPage
  \/ ReturnItems

PagerSpec == PagerInit /\ [][PagerNext]_vars

(***************************************************************************)
(* create_tasks_from_file (src/create_project_tasks.py, lines 54-193).     *)
(* The file's JSON document is a list of objects; an object's 'arguments'  *)
(* is an object with a title, another JSON value, or absent.               *)
(***************************************************************************)
MaxCalls == 3

Object(title) == [kind |-> "object", title |-> title]
Text == [kind |-> "text", title |-> ""]
NoKey == [kind |-> "absent", title |-> ""]

\* the objects a file holds: calls of the tool, with an arguments object
\* or with arguments of another JSON type, a call of another tool and an
\* object without 'arguments'
FileEntries ==
  {[tool |-> "create_test_case_task", arguments |-> Object("T1")],
   [tool |-> "create_test_case_task", arguments |-> Object("T2")],
   [tool |-> "create_test_case_task", arguments |-> Text],
   [tool |-> "get_task_info", arguments |-> Object("T1")],
   [tool |-> "create_test_case_task", arguments |-> NoKey]}

\* what open/json.load of lines 71-79 meets: no file, a file that is not
\* JSON, or a document
FileContents ==
  {[status |-> "missing", data |-> <<>>], [status |-> "invalid", data |-> <<>>]}
    \cup {[status |-> "parsed", data |-> d] :
            d \in UNION {[1..n -> FileEntries] : n \in 0..MaxCalls}}

\* isinstance(arguments, dict)
IsObject(arguments) == arguments.kind = "object"

\* lines 24-51, over a list of objects
RECURSIVE find_tool_calls(_, _)
find_tool_calls(data, tool_name) ==
  IF data = <<>>
    THEN <<>>
    ELSE LET d == Head(data)
             here == IF d.tool = tool_name /\ d.arguments # NoKey
                       THEN <<d.arguments>>
                       ELSE <<>>
         IN  here \o find_tool_calls(Tail(data), tool_name)

\* lines 88-95 and 110-116: the result returned without a call
ResultWithoutCalls(b, total, skipped) ==
  [b EXCEPT !.pc = "returned",
            !.total = total, !.success = 0, !.failed = 0,
            !.skipped = skipped, !.results = <<>>]

\* lines 152-189 with the count of line 181 left out
TallyForgetsErrors(b, arguments, outcome) ==
  LET title == arguments.title
  IN  IF outcome = "created"
        THEN [b EXCEPT !.success = @ + 1,
                       !.results = Append(@, [status |-> "success", title |-> title])]
        ELSE [b EXCEPT !.results = Append(@, [status |-> "error", title |-> title])]

\* lines 152-189: the bookkeeping after one call, which returned a result
\* with 'success' (create_test_case_task returns no other result) or raised
Tally(b, arguments, outcome) ==
  LET title == arguments.title
  IN  IF outcome = "created"
        THEN [b EXCEPT !.success = @ + 1,
                       !.results = Append(@, [status |-> "success", title |-> title])]
        ELSE [b EXCEPT !.failed = @ + 1,
                       !.results = Append(@, [status |-> "error", title |-> title])]

\* the call of create_tasks_from_file(json_file, dry_run)
BatchInit ==
  /\ \E file \in FileContents, dry_run \in BOOLEAN :
       batch = [pc |-> "load",
                file |-> file,
                dry_run |-> dry_run,
                tool_calls |-> <<>>,
                i |-> 1,
                total |-> 0, success |-> 0, failed |-> 0, skipped |-> 0,
                results |-> <<>>,
                calls |-> <<>>]
  /\ ResolverNotRunning
  /\ pager = NotRunning
  /\ task = NotRunning
  /\ tree = NotRunning
  /\ loop = NotRunning

\* lines 71-79: a missing file and invalid JSON end in sys.exit(1)
LoadFile ==
  /\ batch.pc = "load"
  /\ batch' = [batch EXCEPT !.pc = IF batch.file.status # "parsed"
                                     THEN "exited"
                                     ELSE "find"]
  /\ UNCHANGED <<resolver, pager, task, tree, loop>>

\* lines 85-97
FindCalls ==
  /\ batch.pc = "find"
  /\ LET tool_calls == find_tool_calls(batch.file.data, "create_test_case_task")
     IN  batch' = IF tool_calls = <<>>
                    THEN ResultWithoutCalls(batch, 0, 0)
                    ELSE [batch EXCEPT !.tool_calls = tool_calls,
                                       !.pc = IF batch.dry_run THEN "dry" ELSE "init"]
  /\ UNCHANGED <<resolver, pager, task, tree, loop>>

\* lines 99-116: the listing of a dry run; arguments.get of line 103 raises
\* AttributeError on arguments that are no object
DryRun ==
  /\ batch.pc = "dry"
  /\ batch' = IF \A k \in 1..Len(batch.tool_calls) : IsObject(batch.tool_calls[k])
                THEN ResultWithoutCalls(batch, Len(batch.tool_calls),
                                        Len(batch.tool_calls))
                ELSE [batch EXCEPT !.pc = "raised"]
  /\ UNCHANGED <<resolver, pager, task, tree, loop>>

\* lines 118-139: server.initialize() returns, or raises and the run ends
\* in sys.exit(1)
InitServer ==
  /\ batch.pc = "init"
  /\ \E initialized \in BOOLEAN :
       batch' = IF initialized
                  THEN [batch EXCEPT !.pc = "create",
                                     !.total = Len(batch.tool_calls)]
                  ELSE [batch EXCEPT !.pc = "exited"]
  /\ UNCHANGED <<resolver, pager, task, tree, loop>>

\* lines 145-191: one tool call of the loop; arguments.get of line 146,
\* which is outside the try, raises on arguments that are no object
AttemptCall ==
  /\ batch.pc = "create"
  /\ batch.i <= Len(batch.tool_calls)
  /\ LET arguments == batch.tool_calls[batch.i]
     IN  IF IsObject(arguments)
           THEN \E outcome \in {"created", "raised"} :
                  batch' = Tally([batch EXCEPT !.calls = Append(@, arguments),
                                               !.i = @ + 1],
                                 arguments, outcome)
           ELSE batch' = [batch EXCEPT !.pc = "raised"]
  /\ UNCHANGED <<resolver, pager, task, tree, loop>>

\* line 193
ReturnResults ==
  /\ batch.pc = "create"
  /\ batch.i > Len(batch.tool_calls)
  /\ batch' = [batch EXCEPT !.pc = "returned"]
  /\ UNCHANGED <<resolver, pager, task, tree, loop>>

BatchNext ==
  \/ LoadFile
  \/ FindCalls
  \/ DryRun
  \/ InitServer
  \/ AttemptCall
  \/ ReturnResults

BatchSpec == BatchInit /\ [][BatchNext]_vars

(***************************************************************************)
(* create_test_case_task (src/mcp/mcp_server.py, lines 304-480) with the   *)
(* manager calls it makes (src/get_project_tasks.py) and the requests they *)
(* send to the service.  Node ids are written [node, n]: the project item  *)
(* n and the issue it wraps are different nodes; None, 0 and '' are        *)
(* written NoId, 0 and "".                                                 *)
(***************************************************************************)
MaxProjectItems == 2

NoId == [node |-> "none", n |-> 0]
ItemId(n) == [node |-> "item", n |-> n]
IssueId(n) == [node |-> "issue", n |-> n]

\* the n-th item of the project as the query of get_project_items returns
\* it: an issue of a repository, or a draft issue without number
ProjectItem(n, kind) ==
  [id |-> ItemId(n),
   content |-> IF kind = "issue"
                 THEN [type |-> "issue", id |-> IssueId(n), number |-> n,
                       repository |-> "4d/qa"]
                 ELSE [type |-> "draft", id |-> IssueId(n), number |-> 0,
                       repository |-> ""]]

Projects ==
  UNION {{[n \in 1..k |-> ProjectItem(n, kinds[n])] :
            kinds \in [1..k -> {"issue", "draft"}]} : k \in 0..MaxProjectItems}

\* get_project_tasks.py lines 385-476, the fields create_test_case_task reads
parse_item_data(item) ==
  [id |-> item.id,
   number |-> IF item.content.type = "issue" THEN item.content.number ELSE 0,
   repository |-> IF item.content.type = "issue" THEN item.content.repository ELSE ""]

\* the arguments of a call and the GITHUB_ORG of its environment
TaskArguments ==
  [org : {"", "4d"},
   env_org : {"", "4d"},
   project_id : {0, 745},
   parent_task_number : 0..(MaxProjectItems + 1),
   parent_task_id : {NoId} \cup {ItemId(n) : n \in 1..MaxProjectItems}
                      \cup {IssueId(1)},
   title : {"", "T"},
   status : {"", "To do"}]

\* a request sent to the service
Request(op, issueId, subIssueId) ==
  [op |-> op, issueId |-> issueId, subIssueId |-> subIssueId]

Query(op) == Request(op, NoId, NoId)

Mutations ==
  {"createIssue", "addSubIssue", "addProjectV2ItemById",
   "updateProjectV2ItemFieldValue"}

\* lines 349-360 without the check of the title
ArgumentErrorIgnoresTitle(a) ==
  LET org == IF a.org # "" THEN a.org ELSE a.env_org
  IN  IF org = "" THEN "org"
      ELSE IF a.project_id = 0 THEN "project_id"
      ELSE IF a.parent_task_number = 0 /\ a.parent_task_id = NoId THEN "parent"
      ELSE ""

\* lines 349-360: the first check that fails, "" if none
ArgumentError(a) ==
  LET org == IF a.org # "" THEN a.org ELSE a.env_org
  IN  IF org = "" THEN "org"
      ELSE IF a.project_id = 0 THEN "project_id"
      ELSE IF a.parent_task_number = 0 /\ a.parent_task_id = NoId THEN "parent"
      ELSE IF a.title = "" THEN "title"
      ELSE ""

\* next((item for item in list if ...), None) where the positions of
\* `matching` pass the test, None as <<>>
FirstOf(list, matching) ==
  IF matching = {}
    THEN <<>>
    ELSE <<list[CHOOSE k \in matching : \A j \in matching : k <= j]>>

\* lines 369-374
FindParentTask(a, parsed_items) ==
  IF a.parent_task_number # 0
    THEN FirstOf(parsed_items,
                 {k \in 1..Len(parsed_items) :
                    parsed_items[k].number = a.parent_task_number})
    ELSE IF a.parent_task_id # NoId
           THEN FirstOf(parsed_items,
                        {k \in 1..Len(parsed_items) :
                           parsed_items[k].id = a.parent_task_id})
           ELSE <<>>

\* get_project_tasks.py lines 517-566 and 569-588: the requests of
\* create_issue for the issue the service creates with id `created`
create_issue(created, parent_issue_id) ==
  <<Query("repository"), Request("createIssue", created, NoId)>>
    \o (IF parent_issue_id # NoId
          THEN <<Request("addSubIssue", parent_issue_id, created)>>
          ELSE <<>>)

\* the call create_test_case_task(**arguments) on a project of the service
TaskInit ==
  /\ \E a \in TaskArguments, project \in Projects :
       task = [pc |-> "validate",
               arguments |-> a,
               project |-> project,
               parsed_items |-> <<>>,
               parent_task |-> <<>>,
               issue |-> NoId,
               project_item |-> NoId,
               sent |-> <<>>]
  /\ ResolverNotRunning
  /\ pager = NotRunning
  /\ batch = NotRunning
  /\ tree = NotRunning
  /\ loop = NotRunning

\* lines 345-360
ValidateArguments ==
  /\ task.pc = "validate"
  /\ task' = [task EXCEPT !.pc = IF ArgumentError(task.arguments) = ""
                                   THEN "fetch"
                                   ELSE "raised"]
  /\ UNCHANGED <<resolver, pager, batch, tree, loop>>

\* lines 362-367
FetchProject ==
  /\ task.pc = "fetch"
  /\ task' = [task EXCEPT
       !.pc = "find",
       !.sent = @ \o <<Query("organization.projectV2"), Query("node.items")>>,
       !.parsed_items = [k \in 1..Len(task.project) |->
                           parse_item_data(task.project[k])]]
  /\ UNCHANGED <<resolver, pager, batch, tree, loop>>

\* lines 369-387: the parent task and its repository
FindParent ==
  /\ task.pc = "find"
  /\ LET parent_task == FindParentTask(task.arguments, task.parsed_items)
     IN  task' = IF parent_task = <<>>
                   THEN [task EXCEPT !.pc = "raised"]
                   ELSE IF parent_task[1].repository = ""
                          THEN [task EXCEPT !.pc = "raised"]
                          ELSE [task EXCEPT !.pc = "create",
                                            !.parent_task = parent_task]
  /\ UNCHANGED <<resolver, pager, batch, tree, loop>>

\* lines 425-434: the service creates the issue as a new node
CreateIssue ==
  /\ task.pc = "create"
  /\ LET created == IssueId(Len(task.project) + 1)
     IN  task' = [task EXCEPT
           !.pc = "add",
           !.issue = created,
           !.sent = @ \o create_issue(created, task.parent_task[1].id)]
  /\ UNCHANGED <<resolver, pager, batch, tree, loop>>

\* line 437 and get_project_tasks.py lines 590-610
AddToProject ==
  /\ task.pc = "add"
  /\ task' = [task EXCEPT
       !.pc = "fields",
       !.project_item = ItemId(Len(task.project) + 1),
       !.sent = Append(@, Request("addProjectV2ItemById", task.issue, NoId))]
  /\ UNCHANGED <<resolver, pager, batch, tree, loop>>

\* lines 439-460, for the Status field: it is updated when the argument is
\* given and the project has a field of that name
UpdateFields ==
  /\ task.pc = "fields"
  /\ \E field_found \in BOOLEAN :
       task' = [task EXCEPT
         !.pc = "returned",
         !.sent = @ \o
           (IF task.arguments.status = ""
              THEN <<>>
              ELSE <<Query("node.fields")>> \o
                   (IF field_found
                      THEN <<Request("updateProjectV2ItemFieldValue",
                                     task.project_item, NoId)>>
                      ELSE <<>>))]
  /\ UNCHANGED <<resolver, pager, batch, tree, loop>>

TaskNext ==
  \/ ValidateArguments
  \/ FetchProject
  \/ FindParent
  \/ CreateIssue
  \/ AddToProject
  \/ UpdateFields

TaskSpec == TaskInit /\ [][TaskNext]_vars

(***************************************************************************)
(* display_as_relationship_tree (lines 718-752) with the traversal of      *)
(* display_task_subtree (lines 1026-1038) and display_flat_task_list       *)
(* (lines 1142-1147).  What is printed is kept as a list of lines; the     *)
(* recursion is kept as its stack of frames, which the interpreter bounds. *)
(***************************************************************************)
MaxDepth == 6

\* one printed line
Line(kind, id, level) == [line |-> kind, id |-> id, level |-> level]

\* lines 1144-1147: one line per item, in collection order
FlatLines(its) == [k \in 1..Len(its) |-> Line("flat", its[k].id, 0)]

\* lines 748-752
OrphanLines(ids) ==
  IF ids = <<>>
    THEN <<>>
    ELSE <<Line("independent tasks", 0, 0)>>
           \o [k \in 1..Len(ids) |-> Line("single", ids[k], 0)]

\* lines 1034: children_map.get(task['id'], [])
TaskChildren(children_map, id) ==
  IF id \in DOMAIN children_map THEN children_map[id] ELSE <<>>

\* the call display_as_relationship_tree(items, project_info): lines 727-732,
\* an empty list returns before the resolver is called
TreeInit ==
  /\ \/ DeclaredInputs(items)
     \/ IrregularInputs(items)
     \/ MixedInputs(items)
     \/ MarkerInputs(items)
     \/ items = ScenarioItems
  /\ children = EmptyDict
  /\ parents = EmptyDict
  /\ roots = <<>>
  /\ orphans = <<>>
  /\ idx = 1
  /\ pc = IF items # <<>> THEN "native" ELSE "idle"
  /\ tree = IF items # <<>>
              THEN [pc |-> "resolve", out |-> <<>>, stack |-> <<>>, i |-> 1]
              ELSE [pc |-> "returned", out |-> <<Line("no items", 0, 0)>>,
                    stack |-> <<>>, i |-> 1]
  /\ pager = NotRunning
  /\ batch = NotRunning
  /\ task = NotRunning
  /\ loop = NotRunning

\* lines 734-737: the flat list
FlatList ==
  /\ pc = "done"
  /\ tree.pc = "resolve"
  /\ roots = <<>> /\ orphans = <<>>
  /\ tree' = [tree EXCEPT
       !.pc = "returned",
       !.out = <<Line("no clear relationships", 0, 0)>> \o FlatLines(items)]
  /\ UNCHANGED <<resolver, pager, batch, task, loop>>

\* lines 734 and 740: the tree layout is chosen
StartRoots ==
  /\ pc = "done"
  /\ tree.pc = "resolve"
  /\ ~(roots = <<>> /\ orphans = <<>>)
  /\ tree' = [tree EXCEPT !.pc = "roots"]
  /\ UNCHANGED <<resolver, pager, batch, task, loop>>

\* lines 741-744 and 1031: the subtree of the next root is entered
VisitRoot ==
  /\ tree.pc = "roots"
  /\ tree.stack = <<>>
  /\ tree.i <= Len(roots)
  /\ tree' = [tree EXCEPT
       !.i = @ + 1,
       !.stack = <<[id |-> roots[tree.i], k |-> 1]>>,
       !.out = Append(@, Line("task", roots[tree.i], 0))]
  /\ UNCHANGED <<resolver, pager, batch, task, loop>>

\* lines 1034-1038: the recursive call for the next child of the task on
\* top; a call beyond the interpreter's recursion limit raises
\* RecursionError, which nothing catches
Descend ==
  /\ tree.pc = "roots"
  /\ tree.stack # <<>>
  /\ LET top == tree.stack[Len(tree.stack)]
         task_children == TaskChildren(children, top.id)
     IN  /\ top.k <= Len(task_children)
         /\ tree' =
              IF Len(tree.stack) = MaxDepth
                THEN [tree EXCEPT !.pc = "recursion error"]
                ELSE [tree EXCEPT
                        !.stack = Append([@ EXCEPT ![Len(@)].k = top.k + 1],
                                         [id |-> task_children[top.k], k |-> 1]),
                        !.out = Append(@, Line("task", task_children[top.k],
                                               Len(tree.stack)))]
  /\ UNCHANGED <<resolver, pager, batch, task, loop>>

\* lines 1035-1038: the loop over the children ends and the call returns
Ascend ==
  /\ tree.pc = "roots"
  /\ tree.stack # <<>>
  /\ LET top == tree.stack[Len(tree.stack)]
     IN  top.k > Len(TaskChildren(children, top.id))
  /\ tree' = [tree EXCEPT !.stack = SubSeq(@, 1, Len(@) - 1)]
  /\ UNCHANGED <<resolver, pager, batch, task, loop>>

\* lines 747-752: after the last root, the independent tasks
ListOrphans ==
  /\ tree.pc = "roots"
  /\ tree.stack = <<>>
  /\ tree.i > Len(roots)
  /\ tree' = [tree EXCEPT !.pc = "returned",
                          !.out = @ \o OrphanLines(orphans)]
  /\ UNCHANGED <<resolver, pager, batch, task, loop>>

TreeNext ==
  \/ NativeStep
  \/ LexicalStep
  \/ GroupStep
  \/ IdentifyRoots
  \/ IdentifyOrphans
  \/ FlatList
  \/ StartRoots
  \/ VisitRoot
  \/ Descend
  \/ Ascend
  \/ ListOrphans

TreeSpec == TreeInit /\ [][TreeNext]_vars

(***************************************************************************)
(* The stdio loop of main (src/mcp/mcp_server.py, lines 835-897) and       *)
(* handle_tool_call (lines 676-710).  A line of stdin is blank, no JSON, a *)
(* JSON value that is no object, or a JSON object; a missing key is        *)
(* written "absent" and a missing id 0 (null in the response).             *)
(***************************************************************************)
MaxLines == 3

KnownTools ==
  {"get_project_tasks_full", "get_child_tasks", "get_task_info",
   "create_test_case_task"}

InputLine(kind, id, method, params, tool, arguments) ==
  [kind |-> kind, id |-> id, method |-> method, params |-> params,
   tool |-> tool, arguments |-> arguments]

JsonRequest(id, method) == InputLine("object", id, method, "absent", "absent", "absent")

ToolCall(id, tool, arguments) ==
  InputLine("object", id, "tools/call", "object", tool, arguments)

\* the lines a client may send
LinePool ==
  { InputLine("blank", 0, "absent", "absent", "absent", "absent"),
    InputLine("no json", 0, "absent", "absent", "absent", "absent"),
    InputLine("json value", 0, "absent", "absent", "absent", "absent"),
    JsonRequest(7, "tools/list"),
    JsonRequest(8, "initialize"),
    JsonRequest(7, "ping"),
    JsonRequest(0, "absent"),
    JsonRequest(8, "tools/call"),
    InputLine("object", 8, "tools/call", "list", "absent", "absent"),
    ToolCall(8, "get_task_info", "object"),
    ToolCall(7, "get_task_info", "list"),
    ToolCall(7, "format_disk", "object") }

\* a response written to stdout
Response(id, kind, isError, code) ==
  [id |-> id, kind |-> kind, isError |-> isError, code |-> code]

\* lines 676-710 without the try: an exception of the tool leaves the
\* function
handle_tool_call_uncaught(tool_name, arguments, outcome) ==
  IF tool_name \in KnownTools
    THEN IF arguments # "object" \/ outcome = "raises"
           THEN "raised"
           ELSE "content"
    ELSE "error"

\* lines 676-710: the kind of result returned.  A known tool is called
\* with **arguments, which raises TypeError unless arguments is an object;
\* every exception becomes a result with isError
handle_tool_call(tool_name, arguments, outcome) ==
  IF tool_name \in KnownTools
    THEN IF arguments # "object" \/ outcome = "raises"
           THEN "error content"
           ELSE "content"
    ELSE "error"

\* the loop is entered with the lines the client will send
LoopInit ==
  /\ \E n \in 0..MaxLines :
       \E input \in [1..n -> LinePool] :
         loop = [pc |-> "read", input |-> input, i |-> 1, output |-> <<>>,
                 stderr |-> 0, raised |-> {}]
  /\ ResolverNotRunning
  /\ pager = NotRunning
  /\ batch = NotRunning
  /\ task = NotRunning
  /\ tree = NotRunning

\* the line the loop is at
AtLine == loop.pc = "read" /\ loop.i <= Len(loop.input)

CurrentLine == loop.input[loop.i]

IsRequest == AtLine /\ CurrentLine.kind = "object"

\* lines 838-839
SkipBlank ==
  /\ AtLine
  /\ CurrentLine.kind = "blank"
  /\ loop' = [loop EXCEPT !.i = @ + 1]
  /\ UNCHANGED <<resolver, pager, batch, task, tree>>

\* lines 842 and 892-893: json.loads raises JSONDecodeError
InvalidJson ==
  /\ AtLine
  /\ CurrentLine.kind = "no json"
  /\ loop' = [loop EXCEPT !.i = @ + 1, !.stderr = @ + 1]
  /\ UNCHANGED <<resolver, pager, batch, task, tree>>

\* lines 844, 855-856 and 894-895: request.get on a JSON value that is no
\* object, or params.get on params that is no object, raises AttributeError
RequestError ==
  /\ AtLine
  /\ \/ CurrentLine.kind = "json value"
     \/ /\ CurrentLine.kind = "object"
        /\ CurrentLine.method = "tools/call"
        /\ CurrentLine.params \notin {"object", "absent"}
  /\ loop' = [loop EXCEPT !.i = @ + 1, !.stderr = @ + 1]
  /\ UNCHANGED <<resolver, pager, batch, task, tree>>

\* lines 844-852
ListTools ==
  /\ IsRequest
  /\ CurrentLine.method = "tools/list"
  /\ loop' = [loop EXCEPT
       !.i = @ + 1,
       !.output = Append(@, Response(CurrentLine.id, "result", FALSE, 0))]
  /\ UNCHANGED <<resolver, pager, batch, task, tree>>

\* lines 854-866: the tool returns or raises
CallTool ==
  /\ IsRequest
  /\ CurrentLine.method = "tools/call"
  /\ CurrentLine.params \in {"object", "absent"}
  /\ \E outcome \in {"returns", "raises"} :
       LET result == handle_tool_call(CurrentLine.tool, CurrentLine.arguments, outcome)
           called == /\ CurrentLine.tool \in KnownTools
                     /\ CurrentLine.arguments = "object"
       IN  /\ called \/ outcome = "returns"
           /\ loop' =
                IF result = "raised"
                  THEN [loop EXCEPT !.i = @ + 1, !.stderr = @ + 1,
                                    !.raised = @ \cup {loop.i}]
                  ELSE [loop EXCEPT
                          !.i = @ + 1,
                          !.raised = IF called /\ outcome = "raises"
                                       THEN @ \cup {loop.i} ELSE @,
                          !.output = Append(@, Response(CurrentLine.id, "result",
                                                        result # "content", 0))]
  /\ UNCHANGED <<resolver, pager, batch, task, tree>>

\* lines 868-880
Initialize ==
  /\ IsRequest
  /\ CurrentLine.method = "initialize"
  /\ loop' = [loop EXCEPT
       !.i = @ + 1,
       !.output = Append(@, Response(CurrentLine.id, "result", FALSE, 0))]
  /\ UNCHANGED <<resolver, pager, batch, task, tree>>

\* lines 882-891
MethodNotFound ==
  /\ IsRequest
  /\ CurrentLine.method \notin {"tools/list", "tools/call", "initialize"}
  /\ loop' = [loop EXCEPT
       !.i = @ + 1,
       !.output = Append(@, Response(CurrentLine.id, "error", FALSE, -32601))]
  /\ UNCHANGED <<resolver, pager, batch, task, tree>>

\* line 837: stdin is at its end
EndOfInput ==
  /\ loop.pc = "read"
  /\ loop.i > Len(loop.input)
  /\ loop' = [loop EXCEPT !.pc = "ended"]
  /\ UNCHANGED <<resolver, pager, batch, task, tree>>

LoopNext ==
  \/ SkipBlank
  \/ InvalidJson
  \/ RequestError
  \/ ListTools
  \/ CallTool
  \/ Initialize
  \/ MethodNotFound
  \/ EndOfInput

LoopSpec == LoopInit /\ [][LoopNext]_vars

(***************************************************************************)
(* Vocabulary of the properties.                                           *)
(***************************************************************************)
Done == pc = "done"

Positions == 1..Len(items)

\* the children list of p, empty when p is no key of children
ChildrenOf(p) == IF p \in DOMAIN children THEN Elems(children[p]) ELSE {}

\* the ids reachable from the ids of S in 1..k steps along children
RECURSIVE ReachableIn(_, _)
ReachableIn(S, k) ==
  IF k = 0
    THEN {}
    ELSE LET next == UNION {ChildrenOf(p) : p \in S}
         IN  next \cup ReachableIn(next, k - 1)

DescendantsOf(x) == ReachableIn({x}, Len(items))

\* the id a declared number resolves to inside the collection, 0 if none
Resolve(number) == IF number = 0 THEN 0 ELSE Get(NumberToId(items), number)

\* the item at position a lists, among its sub_issues, a number that
\* resolves to the item at position b
ListsAsChild(a, b) ==
  \E k \in 1..Len(items[a].sub_issues) :
    Resolve(items[a].sub_issues[k]) = items[b].id

\* the declared parent of the item at position b resolves to the item at
\* position c
DeclaresParent(b, c) == Resolve(items[b].parent) = items[c].id

\* some declared parent or declared child resolves inside the collection
SomeDeclaredLinkResolves ==
  \E a \in Positions :
    \/ Resolve(items[a].parent) # 0
    \/ \E k \in 1..Len(items[a].sub_issues) : Resolve(items[a].sub_issues[k]) # 0

\* the whitespace-delimited words of a title, lower-cased: the maximal
\* runs of non-whitespace characters
WordsOf(title) ==
  {Lower(SubSeq(title, a, b)) : <<a, b>> \in
     {<<x, y>> \in (1..Len(title)) \X (1..Len(title)) :
        /\ x <= y
        /\ \A k \in x..y : title[k] \notin Whitespace
        /\ x = 1 \/ title[x - 1] \in Whitespace
        /\ y = Len(title) \/ title[y + 1] \in Whitespace}}

\* the two titles share a word of more than 3 characters
ShareSignificantWord(t1, t2) ==
  \E w \in WordsOf(t1) \cap WordsOf(t2) : Len(w) > 3

HasField(a, name) == name \in DOMAIN items[a].project_fields

(***************************************************************************)
(* C1: in the returned graph no item id is its own ancestor: no id is      *)
(* reachable from itself by following children one or more steps.          *)
(* The resolver does not keep this: two items that declare each other as   *)
(* parent, or an item that declares its own number, close a cycle.         *)
(***************************************************************************)
C1_NoIdIsOwnAncestor ==
  Done => \A a \in Positions : items[a].id \notin DescendantsOf(items[a].id)

(***************************************************************************)
(* C2: in the returned graph every id c of children[p] has parents[c] = p, *)
(* so that no id is in the child lists of two parents.  The resolver does  *)
(* not keep this: line 884 appends a sub-issue to children[item] also when *)
(* the sub-issue already has, or later gets, another parent.               *)
(***************************************************************************)
C2_ChildrenImplyParent ==
  Done => \A p \in DOMAIN children : \A c \in Elems(children[p]) :
            c \in DOMAIN parents /\ parents[c] = p

(***************************************************************************)
(* C3: whenever parents[c] = p, the id c is an element of children[p];     *)
(* this holds after every step of the run, also when a declared parent     *)
(* replaces an entry written by a declared-children link.                  *)
(***************************************************************************)
C3_ParentImpliesChild ==
  \A c \in DOMAIN parents :
    /\ parents[c] \in DOMAIN children
    /\ c \in Elems(children[parents[c]])

\* a finished run in which item b, listed as a child by the earlier item a,
\* declares another parent c, and the entry of b names c
C3_Witness ==
  /\ Done
  /\ \E a, b, c \in Positions :
       /\ a < b
       /\ ListsAsChild(a, b)
       /\ DeclaresParent(b, c)
       /\ items[c].id # items[a].id
       /\ parents[items[b].id] = items[c].id
       /\ items[b].id \in ChildrenOf(items[c].id)

(***************************************************************************)
(* C4 as stated: whenever an item A lists the number of another item B in  *)
(* sub_issues, parents[B] = A.id and B.id is in children[A.id].            *)
(* This fails when B declares another parent, or an earlier item lists B.  *)
(***************************************************************************)
C4_DeclaredChildGetsParent ==
  Done => \A a, b \in Positions :
            (/\ a # b
             /\ items[b].number # 0
             /\ items[b].number \in Elems(items[a].sub_issues))
            => /\ items[b].id \in DOMAIN parents
               /\ parents[items[b].id] = items[a].id
               /\ items[b].id \in ChildrenOf(items[a].id)

(***************************************************************************)
(* C4 amended: for distinct items A and B where A lists in sub_issues a    *)
(* number that resolves to B, where B's declared parent does not resolve   *)
(* to an item other than A and where no item before A lists B,             *)
(* parents[B] = A.id and B.id is in children[A.id].                        *)
(***************************************************************************)
C4_DeclaredChildGetsParentUnlessPreempted ==
  Done => \A a, b \in Positions :
            (/\ a # b
             /\ ListsAsChild(a, b)
             /\ Resolve(items[b].parent) \in {0, items[a].id}
             /\ \A e \in 1..(a - 1) : ~ListsAsChild(e, b))
            => /\ items[b].id \in DOMAIN parents
               /\ parents[items[b].id] = items[a].id
               /\ items[b].id \in ChildrenOf(items[a].id)

\* a finished run in which a later item also lists a child of item a, and
\* the child is still recorded under a
C4_Witness ==
  /\ Done
  /\ \E a, b, e \in Positions :
       /\ a < e
       /\ a # b
       /\ ListsAsChild(a, b)
       /\ ListsAsChild(e, b)
       /\ Resolve(items[b].parent) = 0
       /\ parents[items[b].id] = items[a].id

(***************************************************************************)
(* C5: tier precedence.  If A lists B as a child while B's declared        *)
(* parent resolves to an item C other than A, then parents[B] = C.id,      *)
(* whether A comes before or after B in the collection.                    *)
(***************************************************************************)
C5_DeclaredParentWins ==
  Done => \A a, b, c \in Positions :
            (/\ ListsAsChild(a, b)
             /\ DeclaresParent(b, c)
             /\ items[c].id # items[a].id)
            => /\ items[b].id \in DOMAIN parents
               /\ parents[items[b].id] = items[c].id

\* a finished run over three distinct items A, B, C where A precedes B,
\* so that B's entry was first written for A
C5_Witness ==
  /\ Done
  /\ \E a, b, c \in Positions :
       /\ a < b
       /\ c \notin {a, b}
       /\ ListsAsChild(a, b)
       /\ DeclaresParent(b, c)
       /\ parents[items[b].id] = items[c].id
       /\ parents[items[b].id] # items[a].id

(***************************************************************************)
(* C6: if B's declared parent resolves to C and a different item A lists   *)
(* B among its declared children, B.id is not added to children[A.id].     *)
(* The resolver adds it (line 884 is outside the test of line 886).        *)
(***************************************************************************)
C6_NoEdgeForItemWithParent ==
  Done => \A a, b, c \in Positions :
            (/\ a # b
             /\ DeclaresParent(b, c)
             /\ items[a].id # items[c].id
             /\ ListsAsChild(a, b))
            => items[b].id \notin ChildrenOf(items[a].id)

(***************************************************************************)
(* C7: once an entry parents[c] is written, no later step of the run       *)
(* replaces it by another parent.  The resolver does: a test that matches  *)
(* two requirements gets the last one (line 942), and a declared parent    *)
(* replaces an entry written by a declared-children link (line 871).       *)
(***************************************************************************)
C7_ParentWrittenOnce ==
  [][\A c \in DOMAIN parents : c \in DOMAIN parents' /\ parents'[c] = parents[c]]_vars

(***************************************************************************)
(* C8: the tiers exclude each other in priority order.  If a declared      *)
(* parent or child resolves, every edge of the result is a declared link;  *)
(* otherwise, if some requirement matches some test case, every edge joins *)
(* a requirement to a test case (no identifier-grouping edge).             *)
(***************************************************************************)
C8_DeclaredEdge(p, c) ==
  \E a, b \in Positions :
    /\ items[a].id = p
    /\ items[b].id = c
    /\ DeclaresParent(b, a) \/ ListsAsChild(a, b)

C8_LexicalEdge(p, c) ==
  \E a, b \in Positions :
    /\ items[a].id = p
    /\ items[b].id = c
    /\ HasField(a, "Acceptance")
    /\ ~HasField(b, "Acceptance") /\ HasField(b, "Test type")
    /\ ShareSignificantWord(items[a].title, items[b].title)

C8_SomeLexicalMatch ==
  \E a, b \in Positions : C8_LexicalEdge(items[a].id, items[b].id)

C8_TiersExclusive ==
  Done =>
    /\ SomeDeclaredLinkResolves =>
         \A p \in DOMAIN children : \A c \in Elems(children[p]) : C8_DeclaredEdge(p, c)
    /\ (~SomeDeclaredLinkResolves /\ C8_SomeLexicalMatch) =>
         \A p \in DOMAIN children : \A c \in Elems(children[p]) : C8_LexicalEdge(p, c)

\* a finished run with a resolving declared link over items whose markers
\* and titles would match in the lexical tier
C8_Witness ==
  /\ Done
  /\ SomeDeclaredLinkResolves
  /\ C8_SomeLexicalMatch
  /\ children # EmptyDict

(***************************************************************************)
(* C9 as stated: when no declared link resolves, for every item R with the *)
(* 'Acceptance' field and every other item T with the 'Test type' field,   *)
(* T.id is                                                                 *)
(* in children[R.id] iff the titles share a lower-cased word of more than  *)
(* 3 characters.  It fails for an item T carrying both fields, which the   *)
(* resolver files as a requirement only.                                   *)
(***************************************************************************)
C9_LexicalRule ==
  (Done /\ ~SomeDeclaredLinkResolves) =>
    \A r, t \in Positions :
      (r # t /\ HasField(r, "Acceptance") /\ HasField(t, "Test type"))
      => (items[t].id \in ChildrenOf(items[r].id)
            <=> ShareSignificantWord(items[r].title, items[t].title))

(***************************************************************************)
(* C9 amended: the same, for every item R with the 'Acceptance' field and  *)
(* every item T with the 'Test type' field and without the 'Acceptance'    *)
(* field.                                                                  *)
(***************************************************************************)
C9_LexicalRuleForTestCases ==
  (Done /\ ~SomeDeclaredLinkResolves) =>
    \A r, t \in Positions :
      (/\ r # t
       /\ HasField(r, "Acceptance")
       /\ HasField(t, "Test type")
       /\ ~HasField(t, "Acceptance"))
      => (items[t].id \in ChildrenOf(items[r].id)
            <=> ShareSignificantWord(items[r].title, items[t].title))

\* a finished run with a requirement and two test cases, one whose title
\* shares a long word and is a child, one that shares only a word of 3
\* characters and is not
C9_Witness ==
  /\ Done
  /\ ~SomeDeclaredLinkResolves
  /\ \E r, t, u \in Positions :
       /\ HasField(r, "Acceptance")
       /\ HasField(t, "Test type") /\ ~HasField(t, "Acceptance")
       /\ HasField(u, "Test type") /\ ~HasField(u, "Acceptance")
       /\ items[t].id \in ChildrenOf(items[r].id)
       /\ items[u].id \notin ChildrenOf(items[r].id)
       /\ \E w \in WordsOf(items[r].title) \cap WordsOf(items[u].title) : Len(w) = 3

(***************************************************************************)
(* C10 as stated: for the collection [1 "System shall log errors" with     *)
(* the acceptance marker, 2 "Verify that error logging works" with the     *)
(* test-type marker] the result is children[1] = [2], parents[2] = 1 and   *)
(* roots = [1].                                                            *)
(***************************************************************************)
C10_ScenarioMatches ==
  (Done /\ items = ScenarioItems) =>
    /\ children = Put(EmptyDict, 1, <<2>>)
    /\ parents = Put(EmptyDict, 2, 1)
    /\ roots = <<1>>

(***************************************************************************)
(* C10 amended: for that collection the lexical tier finds no match (the   *)
(* titles share no whole word: "errors" is not "error", "log" is not       *)
(* "logging"); children, parents and roots are empty and orphans = [1, 2]. *)
(***************************************************************************)
C10_ScenarioDoesNotMatch ==
  (Done /\ items = ScenarioItems) =>
    /\ children = EmptyDict
    /\ parents = EmptyDict
    /\ roots = <<>>
    /\ orphans = <<1, 2>>

\* the finished run on the scenario's collection
C10_Witness ==
  /\ Done
  /\ items = ScenarioItems
  /\ orphans = <<1, 2>>

(***************************************************************************)
(* C11: lexical fan-out.  When no declared link resolves and a test case T *)
(* matches several requirements, T.id is in children[R.id] of every        *)
(* requirement R it matches, not only of the first.                        *)
(***************************************************************************)
C11_MatchesAll(t) ==
  {r \in Positions : C8_LexicalEdge(items[r].id, items[t].id)}

C11_LexicalFanOut ==
  (Done /\ ~SomeDeclaredLinkResolves) =>
    \A t \in Positions :
      Cardinality(C11_MatchesAll(t)) > 1
      => \A r \in C11_MatchesAll(t) : items[t].id \in ChildrenOf(items[r].id)

\* a finished run in which one test case is a child of two requirements
C11_Witness ==
  /\ Done
  /\ ~SomeDeclaredLinkResolves
  /\ \E t, r1, r2 \in Positions :
       /\ r1 # r2
       /\ {r1, r2} \subseteq C11_MatchesAll(t)
       /\ items[t].id \in ChildrenOf(items[r1].id)
       /\ items[t].id \in ChildrenOf(items[r2].id)

(***************************************************************************)
(* C12: identifier grouping.  When no declared link resolves and no        *)
(* requirement matches a test case, every group of two or more test cases  *)
(* (items with 'Test type' and without 'Acceptance') that share a          *)
(* non-empty 'Test ID' has its first member as parent of the other         *)
(* members, in collection order; no other item gets an edge.               *)
(***************************************************************************)
\* the positions of the test cases that carry the same non-empty Test ID
\* as the test case at position a
C12_Group(a) ==
  {b \in Positions :
     /\ HasField(b, "Test type") /\ ~HasField(b, "Acceptance")
     /\ HasField(b, "Test ID")
     /\ items[b].project_fields["Test ID"] = items[a].project_fields["Test ID"]}

C12_Grouped(a) ==
  /\ HasField(a, "Test type") /\ ~HasField(a, "Acceptance")
  /\ HasField(a, "Test ID") /\ items[a].project_fields["Test ID"] # ""
  /\ Cardinality(C12_Group(a)) > 1

C12_First(a) == CHOOSE f \in C12_Group(a) : \A b \in C12_Group(a) : f <= b

C12_IdentifierGrouping ==
  (Done /\ ~SomeDeclaredLinkResolves /\ ~C8_SomeLexicalMatch) =>
    /\ \A a \in Positions :
         (C12_Grouped(a) /\ C12_First(a) = a) =>
           LET rest == C12_Group(a) \ {a}
               list == children[items[a].id]
           IN  /\ items[a].id \in DOMAIN children
               /\ Len(list) = Cardinality(rest)
               /\ \A b \in rest :
                    /\ list[Cardinality({x \in rest : x < b}) + 1] = items[b].id
                    /\ items[b].id \in DOMAIN parents
                    /\ parents[items[b].id] = items[a].id
    /\ \A a \in Positions :
         /\ items[a].id \in DOMAIN children => (C12_Grouped(a) /\ C12_First(a) = a)
         /\ items[a].id \in DOMAIN parents => (C12_Grouped(a) /\ C12_First(a) # a)

\* a finished run with a group of three test cases next to no requirement
\* match: the first has the two others as children
C12_Witness ==
  /\ Done
  /\ ~SomeDeclaredLinkResolves
  /\ ~C8_SomeLexicalMatch
  /\ \E a \in Positions :
       /\ C12_Grouped(a)
       /\ Cardinality(C12_Group(a)) = 3
       /\ C12_First(a) = a
       /\ Len(children[items[a].id]) = 2

(***************************************************************************)
(* C13 as stated: for two items that share the same 'Test ID' value and    *)
(* carry neither the acceptance nor the test-type marker, without declared *)
(* links, the first item becomes the parent of the second.                 *)
(***************************************************************************)
C13_IsIdScenario ==
  /\ Len(items) = 2
  /\ \A a \in Positions :
       /\ items[a].parent = 0 /\ items[a].sub_issues = <<>>
       /\ ~HasField(a, "Acceptance") /\ ~HasField(a, "Test type")
       /\ HasField(a, "Test ID")
       /\ items[a].project_fields["Test ID"] # ""
  /\ items[1].project_fields["Test ID"] = items[2].project_fields["Test ID"]

C13_IdScenarioGroups ==
  (Done /\ C13_IsIdScenario) =>
    /\ children = Put(EmptyDict, items[1].id, <<items[2].id>>)
    /\ parents = Put(EmptyDict, items[2].id, items[1].id)
    /\ roots = <<items[1].id>>

(***************************************************************************)
(* C13 amended: for such a collection the identifier-grouping tier does    *)
(* nothing, because it groups only items that carry the test-type marker:  *)
(* children, parents and roots are empty and both items are orphans.       *)
(***************************************************************************)
C13_IdScenarioStaysFlat ==
  (Done /\ C13_IsIdScenario) =>
    /\ children = EmptyDict
    /\ parents = EmptyDict
    /\ roots = <<>>
    /\ orphans = <<items[1].id, items[2].id>>

\* the finished run on two unmarked items with the same Test ID
C13_Witness ==
  /\ Done
  /\ C13_IsIdScenario
  /\ Len(orphans) = 2

(***************************************************************************)
(* C14: for a collection in which no item has a declared parent, declared  *)
(* children, the acceptance marker or the test-type marker (the empty      *)
(* collection included), children, parents and roots are empty and         *)
(* orphans lists every item of the collection, in order.                   *)
(***************************************************************************)
C14_NoLinksNoMarkers ==
  \A a \in Positions :
    /\ items[a].parent = 0
    /\ items[a].sub_issues = <<>>
    /\ ~HasField(a, "Acceptance")
    /\ ~HasField(a, "Test type")

C14_AllOrphans ==
  (Done /\ C14_NoLinksNoMarkers) =>
    /\ children = EmptyDict
    /\ parents = EmptyDict
    /\ roots = <<>>
    /\ orphans = [a \in Positions |-> items[a].id]

\* a finished run on three items without links and markers
C14_Witness ==
  /\ Done
  /\ C14_NoLinksNoMarkers
  /\ Len(items) = 3
  /\ Len(orphans) = 3

(***************************************************************************)
(* C15: dangling references are ignored.  Every key and every member of    *)
(* children and parents is the id of an item; an item whose declared       *)
(* parent belongs to no item and that has no other link (no resolving      *)
(* declared child, no item that lists it or declares it as parent, no      *)
(* marker match) is an orphan; an item whose declared children all dangle  *)
(* gets no children entry from them.                                       *)
(***************************************************************************)
C15_Ids == {items[a].id : a \in Positions}

C15_NoMarkerMatch(a) ==
  /\ \A b \in Positions :
       /\ ~C8_LexicalEdge(items[a].id, items[b].id)
       /\ ~C8_LexicalEdge(items[b].id, items[a].id)
  /\ ~C12_Grouped(a)

C15_NoResolvingChild(a) ==
  \A k \in 1..Len(items[a].sub_issues) : Resolve(items[a].sub_issues[k]) = 0

C15_DanglingIgnored ==
  Done =>
    /\ DOMAIN children \subseteq C15_Ids
    /\ DOMAIN parents \subseteq C15_Ids
    /\ \A p \in DOMAIN children : Elems(children[p]) \subseteq C15_Ids
    /\ \A c \in DOMAIN parents : parents[c] \in C15_Ids
    /\ \A a \in Positions :
         (/\ items[a].parent # 0
          /\ Resolve(items[a].parent) = 0
          /\ C15_NoResolvingChild(a)
          /\ \A b \in Positions : ~ListsAsChild(b, a) /\ ~DeclaresParent(b, a)
          /\ C15_NoMarkerMatch(a))
         => /\ items[a].id \in Elems(orphans)
            /\ items[a].id \notin DOMAIN parents
            /\ items[a].id \notin DOMAIN children
    /\ \A a \in Positions :
         (/\ items[a].sub_issues # <<>>
          /\ C15_NoResolvingChild(a)
          /\ \A b \in Positions : ~DeclaresParent(b, a)
          /\ C15_NoMarkerMatch(a))
         => items[a].id \notin DOMAIN children

\* a finished run in which an item with a dangling declared parent is an
\* orphan
C15_Witness ==
  /\ Done
  /\ \E a \in Positions :
       /\ items[a].parent # 0
       /\ Resolve(items[a].parent) = 0
       /\ items[a].id \in Elems(orphans)

(***************************************************************************)
(* C16: self references are ignored: no item id is in its own children     *)
(* list and no item is its own parent.  The resolver has no such test: an  *)
(* item whose declared parent or declared child carries its own number     *)
(* becomes its own parent and child.                                       *)
(***************************************************************************)
C16_NoSelfEdges ==
  Done => \A a \in Positions :
            /\ items[a].id \notin ChildrenOf(items[a].id)
            /\ items[a].id \in DOMAIN parents => parents[items[a].id] # items[a].id

(***************************************************************************)
(* C17: classification.  roots is the list of the items with a children    *)
(* entry and no parents entry, orphans the list of the items with neither, *)
(* both in collection order; every item is in exactly one of roots,        *)
(* orphans and the items with a parents entry.                             *)
(***************************************************************************)
PositionOf(id) == CHOOSE a \in Positions : items[a].id = id

InCollectionOrder(list) ==
  \A i, j \in 1..Len(list) : i < j => PositionOf(list[i]) < PositionOf(list[j])

C17_Classification ==
  Done =>
    /\ Elems(roots) = {items[a].id : a \in
                         {x \in Positions : /\ items[x].id \in DOMAIN children
                                            /\ items[x].id \notin DOMAIN parents}}
    /\ Elems(orphans) = {items[a].id : a \in
                           {x \in Positions : /\ items[x].id \notin DOMAIN children
                                              /\ items[x].id \notin DOMAIN parents}}
    /\ InCollectionOrder(roots)
    /\ InCollectionOrder(orphans)
    /\ Elems(roots) \cap Elems(orphans) = {}
    /\ \A a \in Positions :
         LET id == items[a].id
         IN  Cardinality({k \in 1..3 :
                            \/ k = 1 /\ id \in Elems(roots)
                            \/ k = 2 /\ id \in Elems(orphans)
                            \/ k = 3 /\ id \in DOMAIN parents}) = 1

\* a finished run with two roots and an item that has a parent and
\* children of its own
C17_Witness ==
  /\ Done
  /\ Len(roots) = 2
  /\ \E a \in Positions :
       /\ items[a].id \in DOMAIN parents
       /\ items[a].id \in DOMAIN children

(***************************************************************************)
(* C18: every item with a parents entry is reachable from a root along     *)
(* children.  This fails on the cycles of C1: two items that declare each  *)
(* other as parent both have a parent and there is no root.                *)
(***************************************************************************)
C18_ReachableFromRoot ==
  Done => \A a \in Positions :
            items[a].id \in DOMAIN parents
            => \E r \in Elems(roots) : items[a].id \in DescendantsOf(r)

(***************************************************************************)
(* C19 as stated: within every children list the children appear in the    *)
(* order of the collection.  It fails even leaving aside a parent that is  *)
(* its own child: the sub_issues of a parent are appended in the order the *)
(* parent declares them, at the moment the parent is processed.            *)
(***************************************************************************)
C19_ChildrenInCollectionOrder ==
  Done => \A p \in DOMAIN children :
            \A i, j \in 1..Len(children[p]) :
              (i < j /\ children[p][i] # p /\ children[p][j] # p)
              => PositionOf(children[p][i]) < PositionOf(children[p][j])

(***************************************************************************)
(* C19 amended: within children[p] the children appear in the order of the *)
(* collection whenever none of p's own declared sub_issues resolves, that  *)
(* is for the edges that come from the children's declared parents, from   *)
(* the lexical tier and from the identifier-grouping tier.                 *)
(***************************************************************************)
C19_OrderWithoutDeclaredChildren ==
  Done => \A p \in DOMAIN children :
            C15_NoResolvingChild(PositionOf(p)) => InCollectionOrder(children[p])

\* a finished run in which the second item is the declared parent of the
\* first and of the third
C19_Witness ==
  /\ Done
  /\ Len(items) = 3
  /\ DeclaresParent(1, 2)
  /\ DeclaresParent(3, 2)
  /\ C15_NoResolvingChild(2)
  /\ children[items[2].id] = <<items[1].id, items[3].id>>


(***************************************************************************)
(* C21: duplicate sequence numbers resolve last-wins.  When two items      *)
(* carry the same number n, an item declaring parent n becomes a child of  *)
(* the later one, an item listing n among its sub_issues gets the later    *)
(* one as child, and the earlier one takes part in an edge with such an    *)
(* item only through a declaration of its own.                             *)
(***************************************************************************)
\* e and l carry the same number and l is the last item that carries it
C21_Duplicate(e, l) ==
  /\ e < l
  /\ items[e].number # 0
  /\ items[e].number = items[l].number
  /\ \A j \in Positions : items[j].number = items[l].number => j <= l

\* the item at position a names, by a declaration of its own, the item at
\* position b, which is the last one carrying the declared number
C21_OwnLink(a, b) ==
  LET IsLast(number) ==
        /\ items[b].number = number
        /\ \A j \in Positions : items[j].number = number => j <= b
  IN  \/ items[a].parent # 0 /\ IsLast(items[a].parent)
      \/ \E k \in 1..Len(items[a].sub_issues) : IsLast(items[a].sub_issues[k])

C21_LastWins ==
  Done =>
    \A e, l \in Positions :
      C21_Duplicate(e, l) =>
        \A x \in Positions :
          /\ items[x].parent = items[l].number =>
                /\ parents[items[x].id] = items[l].id
                /\ items[x].id \in ChildrenOf(items[l].id)
                /\ (items[x].id \in ChildrenOf(items[e].id) => C21_OwnLink(e, x))
          /\ items[l].number \in Elems(items[x].sub_issues) =>
                /\ items[l].id \in ChildrenOf(items[x].id)
                /\ (items[e].id \in ChildrenOf(items[x].id) => C21_OwnLink(e, x))

\* a finished run in which a third item declares, as its parent, a number
\* that two items carry
C21_Witness ==
  /\ Done
  /\ \E e, l, x \in Positions :
       /\ C21_Duplicate(e, l)
       /\ x \notin {e, l}
       /\ items[x].parent = items[l].number
       /\ parents[items[x].id] = items[l].id
       /\ items[e].id \notin DOMAIN children

(***************************************************************************)
(* C22: get_all_project_items pages completely.  With the project served   *)
(* in k pages, the call makes at most k requests at any time and returns   *)
(* after exactly k, the first without cursor and each later one with the   *)
(* endCursor of the page before; the list returned is every node of the    *)
(* project once, in page order.                                            *)
(***************************************************************************)
\* the endCursor the service gave with page i
RECURSIVE C22_CursorOf(_)
C22_CursorOf(i) ==
  IF i = 0 THEN 0 ELSE C22_CursorOf(i - 1) + pager.sizes[i]

C22_CompletePagination ==
  pager.pc # "idle" =>
    LET k == Len(pager.sizes)
    IN  /\ Len(pager.requests) <= k
        /\ pager.pc = "returned" =>
             /\ Len(pager.requests) = k
             /\ pager.requests[1] = 0
             /\ \A i \in 2..k : pager.requests[i] = C22_CursorOf(i - 1)
             /\ pager.all_items = [x \in 1..C22_CursorOf(k) |-> x]

\* a returned call that needed three requests
C22_Witness ==
  /\ pager.pc = "returned"
  /\ Len(pager.requests) = 3
  /\ Len(pager.all_items) > 3


(***************************************************************************)
(* C23: accounting of create_tasks_from_file.  In every result returned,   *)
(* total = success + failed + skipped and total counts the tool calls of   *)
(* the file; a dry run never calls create_test_case_task and skips every   *)
(* call; a real run has called it once for every tool call of the file,    *)
(* in file order, skipped nothing and holds one results entry per call.    *)
(***************************************************************************)
\* the positions of the file's objects that are calls of the tool
C23_CallPositions ==
  {k \in 1..Len(batch.file.data) :
     /\ batch.file.data[k].tool = "create_test_case_task"
     /\ batch.file.data[k].arguments.kind # "absent"}

C23_Accounting ==
  /\ (batch.pc # "idle" /\ batch.dry_run) => batch.calls = <<>>
  /\ batch.pc = "returned" =>
       /\ batch.total = batch.success + batch.failed + batch.skipped
       /\ batch.total = Cardinality(C23_CallPositions)
       /\ batch.dry_run => batch.skipped = batch.total
       /\ ~batch.dry_run =>
            /\ batch.skipped = 0
            /\ Len(batch.calls) = batch.total
            /\ Len(batch.results) = Len(batch.calls)
            /\ \A n \in 1..Len(batch.calls) :
                 \E k \in C23_CallPositions :
                   /\ Cardinality({j \in C23_CallPositions : j < k}) = n - 1
                   /\ batch.calls[n] = batch.file.data[k].arguments
                   /\ batch.results[n].title = batch.calls[n].title

\* a returned real run in which the first call raised and a later one
\* created its task
C23_Witness ==
  /\ batch.pc = "returned"
  /\ ~batch.dry_run
  /\ Len(batch.results) >= 2
  /\ batch.results[1].status = "error"
  /\ batch.results[2].status = "success"
  /\ batch.failed = 1


(***************************************************************************)
(* C24: the sub-issue relationship is created with the parent issue's node *)
(* id: every addSubIssue request names, as issueId, the id of the issue    *)
(* that the parent's project item wraps, and as subIssueId the new issue.  *)
(* The code passes the id of the project item instead.                     *)
(***************************************************************************)
C24_LinksParentIssue ==
  \A k \in 1..Len(task.sent) :
    task.sent[k].op = "addSubIssue" =>
      \E n \in 1..Len(task.project) :
        /\ task.project[n].id = task.parent_task[1].id
        /\ task.sent[k].issueId = task.project[n].content.id
        /\ task.sent[k].subIssueId = task.issue

(***************************************************************************)
(* C29: create_test_case_task validates before it mutates.  When org (and  *)
(* GITHUB_ORG), project_id, title or both parent references are missing,   *)
(* when no item of the project is the parent task, or when the parent has  *)
(* no repository, no mutation is ever sent and the call, once it has       *)
(* left its checks, has raised.                                            *)
(***************************************************************************)
C29_ParentItems ==
  LET a == task.arguments
  IN  {n \in 1..Len(task.project) :
         IF a.parent_task_number # 0
           THEN /\ task.project[n].content.type = "issue"
                /\ task.project[n].content.number = a.parent_task_number
           ELSE task.project[n].id = a.parent_task_id}

C29_Invalid ==
  LET a == task.arguments
  IN  \/ a.org = "" /\ a.env_org = ""
      \/ a.project_id = 0
      \/ a.title = ""
      \/ a.parent_task_number = 0 /\ a.parent_task_id = NoId
      \/ C29_ParentItems = {}
      \/ \E n \in C29_ParentItems : task.project[n].content.repository = ""

C29_ValidatesBeforeMutating ==
  (task.pc # "idle" /\ C29_Invalid) =>
    /\ \A k \in 1..Len(task.sent) : task.sent[k].op \notin Mutations
    /\ task.pc \in {"validate", "fetch", "find", "raised"}

\* a call with complete arguments has fetched the project's items, found
\* no parent task among them and raised
C29_Witness ==
  /\ task.pc = "raised"
  /\ ArgumentError(task.arguments) = ""
  /\ Len(task.project) = 2
  /\ task.sent # <<>>
  /\ C29_ParentItems = {}


(***************************************************************************)
(* C25: flat-list fallback.  When the resolver finds no relationship at    *)
(* all in a non-empty list (children and parents both empty), the display  *)
(* prints 'No clear task relationships found' and then the items as a flat *)
(* list.  The code tests roots and orphans instead, and with no            *)
(* relationship every item is an orphan.                                   *)
(***************************************************************************)
C25_FlatListFallback ==
  (/\ tree.pc = "returned"
   /\ items # <<>>
   /\ children = EmptyDict
   /\ parents = EmptyDict)
  => /\ Len(tree.out) = Len(items) + 1
     /\ tree.out[1].line = "no clear relationships"
     /\ \A k \in 1..Len(items) :
          /\ tree.out[k + 1].line = "flat"
          /\ tree.out[k + 1].id = items[k].id

(***************************************************************************)
(* C26: tree rendering terminates.  The traversal started from a root      *)
(* never enters a task it is already below, so the recursion stays within  *)
(* the number of items and returns.  The resolver's parent cycles (C1)     *)
(* break it.                                                               *)
(***************************************************************************)
C26_TraversalReturns ==
  tree.pc # "idle" =>
    /\ tree.pc # "recursion error"
    /\ \A a, b \in 1..Len(tree.stack) :
         a # b => tree.stack[a].id # tree.stack[b].id


(***************************************************************************)
(* C27: when no declared link resolves, the graph has depth one: no id is  *)
(* a key of both children and parents, every item with a parent is a       *)
(* direct child of a root, and no id is its own descendant.                *)
(***************************************************************************)
C27_DepthOne ==
  (Done /\ ~SomeDeclaredLinkResolves) =>
    /\ DOMAIN children \cap DOMAIN parents = {}
    /\ \A c \in DOMAIN parents :
         /\ parents[c] \in Elems(roots)
         /\ c \in ChildrenOf(parents[c])
    /\ \A a \in Positions : items[a].id \notin DescendantsOf(items[a].id)

\* a finished run without resolving declared link in which an item that
\* carries both markers is a parent
C27_Witness ==
  /\ Done
  /\ ~SomeDeclaredLinkResolves
  /\ \E a \in Positions :
       /\ HasField(a, "Acceptance")
       /\ HasField(a, "Test type")
       /\ items[a].id \in DOMAIN children

(***************************************************************************)
(* C28: at every step of a run no children list holds the same id twice    *)
(* and every key of children maps to a non-empty list.                     *)
(***************************************************************************)
C28_NoDuplicateChild ==
  \A p \in DOMAIN children :
    /\ children[p] # <<>>
    /\ \A i, j \in 1..Len(children[p]) :
         i # j => children[p][i] # children[p][j]

\* a finished run in which a child declares the parent that lists it, or
\* in which a parent's declared children repeat a number
C28_Witness ==
  /\ Done
  /\ \/ \E a, b \in Positions :
          /\ a # b
          /\ DeclaresParent(b, a)
          /\ ListsAsChild(a, b)
          /\ children[items[a].id] = <<items[b].id>>
     \/ \E a \in Positions :
          /\ Len(items[a].sub_issues) = 2
          /\ items[a].sub_issues[1] = items[a].sub_issues[2]
          /\ Resolve(items[a].sub_issues[1]) \notin {0, items[a].id}
          /\ Len(children[items[a].id]) = 1


(***************************************************************************)
(* C30: request/response pairing of the stdio loop.  At every moment the   *)
(* responses written are, in order, one per line read so far that is a     *)
(* JSON object (with params an object, or no params, for tools/call), each *)
(* with its request's id: a result for tools/list and initialize, a result *)
(* for tools/call that has isError exactly when the tool is unknown or     *)
(* raised, and error -32601 for any other method.                          *)
(***************************************************************************)
\* the lines read so far that are requests to be answered
C30_Requests ==
  {k \in 1..(loop.i - 1) :
     /\ loop.input[k].kind = "object"
     /\ loop.input[k].method = "tools/call" =>
          loop.input[k].params \in {"object", "absent"}}

\* the response owed to the request of line k
C30_Answers(r, k) ==
  LET q == loop.input[k]
  IN  /\ r.id = q.id
      /\ q.method \in {"tools/list", "initialize"} =>
           r.kind = "result" /\ ~r.isError
      /\ q.method = "tools/call" =>
           /\ r.kind = "result"
           /\ r.isError <=> \/ q.tool \notin KnownTools
                            \/ q.arguments # "object"
                            \/ k \in loop.raised
      /\ q.method \notin {"tools/list", "initialize", "tools/call"} =>
           r.kind = "error" /\ r.code = -32601

C30_RequestResponsePairing ==
  loop.pc # "idle" =>
    /\ Len(loop.output) = Cardinality(C30_Requests)
    /\ \A n \in 1..Len(loop.output) :
         \E k \in C30_Requests :
           /\ Cardinality({j \in C30_Requests : j < k}) = n - 1
           /\ C30_Answers(loop.output[n], k)

\* the loop has ended after a tool call that raised, answered with isError,
\* and a later request that was answered too
C30_Witness ==
  /\ loop.pc = "ended"
  /\ Len(loop.input) = 3
  /\ 1 \in loop.raised
  /\ Len(loop.output) >= 2
  /\ loop.output[1].isError
  /\ loop.output[2].id # loop.output[1].id

=============================================================================
